---- MODULE Spec2Model ----
(***************************************************************************)
(* Model of the trade-opportunities API: identity resolution, the session  *)
(* table, the rate limiter, sector validation and the analysis service     *)
(* with its in-memory cache.                                               *)
(*                                                                         *)
(* Python strings are modelled as sequences of one-character strings, so   *)
(* that concatenation (the f-strings that build session and cache keys),   *)
(* strip(), lower(), startswith() and the regular expression are computed  *)
(* as the code computes them.                                              *)
(***************************************************************************)
EXTENDS Integers, Sequences, FiniteSets, TLC

(***************************************************************************)
(* Characters and string helpers                                           *)
(***************************************************************************)

LowerLetters == {"a", "b", "c", "e", "g", "i", "l", "s", "t", "u", "x"}
UpperLetters == {"A", "I", "Z"}
DigitChars == {"0", "1", "2", "3", "4", "5", "6", "7", "8", "9"}

\* str.strip() with no argument and the regex class \s: ASCII whitespace.
WhitespaceChars == {" ", "\t", "\n"}

\* str.lower() on one character (dependencies.py:135).
LowerChar(c) ==
    CASE c = "A" -> "a"
      [] c = "I" -> "i"
      [] c = "Z" -> "z"
      [] OTHER -> c

Lower(s) == [i \in 1..Len(s) |-> LowerChar(s[i])]

\* str.strip(): drop leading and trailing whitespace (dependencies.py:135).
RECURSIVE LStrip(_)
LStrip(s) ==
    IF s # <<>> /\ Head(s) \in WhitespaceChars THEN LStrip(Tail(s)) ELSE s

RECURSIVE RStrip(_)
RStrip(s) ==
    IF s # <<>> /\ s[Len(s)] \in WhitespaceChars
    THEN RStrip(SubSeq(s, 1, Len(s) - 1))
    ELSE s

Strip(s) == RStrip(LStrip(s))

\* The character class [a-zA-Z0-9\s\-_] of the regex (dependencies.py:152).
RegexClass ==
    LowerLetters \cup {"z"} \cup UpperLetters \cup DigitChars
        \cup WhitespaceChars \cup {"-", "_"}

\* re.match(r'^[a-zA-Z0-9\s\-_]+$', s): one or more characters of the class;
\* $ also matches before one trailing newline.
RegexMatch(s) ==
    LET body == IF s # <<>> /\ s[Len(s)] = "\n"
                THEN {s, SubSeq(s, 1, Len(s) - 1)}
                ELSE {s}
    IN \E b \in body : b # <<>> /\ \A i \in 1..Len(b) : b[i] \in RegexClass

\* str.startswith (analysis.py:191).
StartsWith(s, p) == Len(p) <= Len(s) /\ SubSeq(s, 1, Len(p)) = p

\* Decimal digits of a natural number, as str(int) prints them.
DigitOf(d) ==
    CASE d = 0 -> "0" [] d = 1 -> "1" [] d = 2 -> "2" [] d = 3 -> "3"
      [] d = 4 -> "4" [] d = 5 -> "5" [] d = 6 -> "6" [] d = 7 -> "7"
      [] d = 8 -> "8" [] OTHER -> "9"

RECURSIVE Digits(_)
Digits(n) ==
    IF n < 10 THEN <<DigitOf(n)>> ELSE Digits(n \div 10) \o <<DigitOf(n % 10)>>

(***************************************************************************)
(* Sector validation (dependencies.py: validate_sector_name)               *)
(***************************************************************************)

MinSectorLen == 2
MaxSectorLen == 50

Reject(code, detail) == [ok |-> FALSE, code |-> code, detail |-> detail]

\* Variant: the name is stripped but keeps its letter case.
MutValidateSectorNameKeepsCase(sector) ==
    IF sector = <<>> THEN Reject(400, "empty")
    ELSE LET cleaned_sector == Strip(sector) IN
         IF Len(cleaned_sector) < MinSectorLen THEN Reject(400, "too short")
         ELSE IF Len(cleaned_sector) > MaxSectorLen THEN Reject(400, "too long")
         ELSE IF ~RegexMatch(cleaned_sector)
              THEN Reject(400, "invalid characters")
         ELSE [ok |-> TRUE, value |-> cleaned_sector]

ValidateSectorName(sector) ==
    IF sector = <<>> THEN Reject(400, "empty")
    ELSE LET cleaned_sector == Lower(Strip(sector)) IN
         IF Len(cleaned_sector) < MinSectorLen THEN Reject(400, "too short")
         ELSE IF Len(cleaned_sector) > MaxSectorLen THEN Reject(400, "too long")
         ELSE IF ~RegexMatch(cleaned_sector)
              THEN Reject(400, "invalid characters")
         ELSE [ok |-> TRUE, value |-> cleaned_sector]

(***************************************************************************)
(* Identity resolution (dependencies.py: get_current_user)                 *)
(***************************************************************************)

guest == <<"g", "u", "e", "s", "t">>
alice == <<"a", "l", "i", "c", "e">>
bella == <<"b", "e", "l", "l", "a">>
ghost == <<"x">>
\* A user whose name is the guest's name, the separator and an address.
under == <<"g", "u", "e", "s", "t", "_", "1", ".", "1">>

\* The bearer credentials a request may carry, by what verify_token makes of
\* the token: a payload with a subject, a payload without one, or an error.
NoCred == [kind |-> "absent", sub |-> <<>>]
Tokens ==
    { [kind |-> "payload", sub |-> alice],
      [kind |-> "payload", sub |-> bella],
      [kind |-> "payload", sub |-> ghost],
      [kind |-> "nosub", sub |-> <<>>],
      [kind |-> "undecodable", sub |-> <<>>] }
Credentials == {NoCred} \cup Tokens

\* app.utils.auth.verify_token (not among the sources): the decoded payload,
\* or an exception for a token that does not decode.
VerifyToken(token) ==
    IF token.kind = "undecodable"
    THEN [raised |-> TRUE, has_sub |-> FALSE, sub |-> <<>>]
    ELSE [raised |-> FALSE, has_sub |-> token.kind = "payload", sub |-> token.sub]

\* app.utils.auth.get_user (not among the sources): the user table.
GetUser(username) ==
    IF username = alice
    THEN [found |-> TRUE, username |-> alice, disabled |-> FALSE]
    ELSE IF username = bella
    THEN [found |-> TRUE, username |-> bella, disabled |-> TRUE]
    ELSE IF username = under
    THEN [found |-> TRUE, username |-> under, disabled |-> FALSE]
    ELSE [found |-> FALSE, username |-> <<>>, disabled |-> FALSE]

NoUser == [username |-> <<>>, is_guest |-> FALSE]

AuthOk(username, is_guest) ==
    [ok |-> TRUE, code |-> 200, detail |-> "",
     user |-> [username |-> username, is_guest |-> is_guest]]

AuthFail(code, detail) ==
    [ok |-> FALSE, code |-> code, detail |-> detail, user |-> NoUser]

\* Variant: a credential that fails falls back to guest access.
MutGetCurrentUserGuestFallback(credentials) ==
    IF credentials.kind = "absent" THEN AuthOk(guest, TRUE)
    ELSE LET payload == VerifyToken(credentials)
             user == GetUser(payload.sub)
         IN IF payload.raised \/ ~payload.has_sub \/ ~user.found
               \/ user.disabled
            THEN AuthOk(guest, TRUE)
            ELSE AuthOk(user.username, FALSE)

\* Variant: an unknown subject is answered 404.
MutGetCurrentUserUnknown404(credentials) ==
    IF credentials.kind = "absent" THEN AuthOk(guest, TRUE)
    ELSE LET payload == VerifyToken(credentials) IN
         IF payload.raised
         THEN AuthFail(401, "Could not validate credentials")
         ELSE IF ~payload.has_sub
         THEN AuthFail(401, "Could not validate credentials")
         ELSE LET user == GetUser(payload.sub) IN
              IF ~user.found THEN AuthFail(404, "User not found")
              ELSE IF user.disabled THEN AuthFail(400, "Inactive user")
              ELSE AuthOk(user.username, FALSE)

\* Variant: a missing credential is refused (the security scheme's
\* auto_error behaviour).
MutGetCurrentUserRejectsGuest(credentials) ==
    IF credentials.kind = "absent"
    THEN AuthFail(401, "Not authenticated")
    ELSE LET payload == VerifyToken(credentials) IN
         IF payload.raised
         THEN AuthFail(401, "Could not validate credentials")
         ELSE IF ~payload.has_sub
         THEN AuthFail(401, "Could not validate credentials")
         ELSE LET user == GetUser(payload.sub) IN
              IF ~user.found THEN AuthFail(401, "User not found")
              ELSE IF user.disabled THEN AuthFail(400, "Inactive user")
              ELSE AuthOk(user.username, FALSE)

GetCurrentUser(credentials) ==
    IF credentials.kind = "absent" THEN AuthOk(guest, TRUE)
    ELSE LET payload == VerifyToken(credentials) IN
         IF payload.raised
         THEN AuthFail(401, "Could not validate credentials")
         ELSE IF ~payload.has_sub
         THEN AuthFail(401, "Could not validate credentials")
         ELSE LET user == GetUser(payload.sub) IN
              IF ~user.found THEN AuthFail(401, "User not found")
              ELSE IF user.disabled THEN AuthFail(400, "Inactive user")
              ELSE AuthOk(user.username, FALSE)

(***************************************************************************)
(* Session table (dependencies.py: session_store, get_user_session,        *)
(* cleanup_old_sessions)                                                   *)
(***************************************************************************)

HourSeconds == 3600
SessionTTL == 86400

\* int(time.time() // 3600)
HourBucket(t) == t \div HourSeconds

\* Variant: the key's time bucket is the day.
MutSessionKeyDayBucket(username, client_ip, t) ==
    username \o <<"_">> \o client_ip \o <<"_">> \o Digits(t \div SessionTTL)

\* f"{username}_{client_ip}_{int(time.time() // 3600)}"
SessionKey(username, client_ip, t) ==
    username \o <<"_">> \o client_ip \o <<"_">> \o Digits(HourBucket(t))

\* Function update that also extends the domain (dict[key] = value).
Put(f, k, v) == [x \in DOMAIN f \cup {k} |-> IF x = k THEN v ELSE f[x]]

\* del dict[key] for every key of ks.
Drop(f, ks) == [x \in DOMAIN f \ ks |-> f[x]]

EmptyMap == [x \in {} |-> TRUE]

\* Variant: the request count is not updated.
MutGetUserSessionNoIncrement(store, current_user, client_ip, t) ==
    LET session_key == SessionKey(current_user.username, client_ip, t) IN
    [key |-> session_key,
     store |-> IF session_key \in DOMAIN store
               THEN Put(store, session_key,
                        [store[session_key] EXCEPT !.last_seen = t])
               ELSE Put(store, session_key,
                        [username |-> current_user.username,
                         ip |-> client_ip,
                         created_at |-> t,
                         request_count |-> 0,
                         is_guest |-> current_user.is_guest,
                         last_seen |-> t])]

GetUserSession(store, current_user, client_ip, t) ==
    LET session_key == SessionKey(current_user.username, client_ip, t)
        initialised ==
            IF session_key \in DOMAIN store THEN store
            ELSE Put(store, session_key,
                     [username |-> current_user.username,
                      ip |-> client_ip,
                      created_at |-> t,
                      request_count |-> 0,
                      is_guest |-> current_user.is_guest,
                      last_seen |-> t])
        record == initialised[session_key]
    IN [key |-> session_key,
        store |-> Put(initialised, session_key,
                      [record EXCEPT !.request_count = @ + 1, !.last_seen = t])]

\* Variant: a session goes as soon as it is 24 hours old.
MutCleanupOldSessionsAtTTL(store, t) ==
    Drop(store, {k \in DOMAIN store : t - store[k].created_at >= SessionTTL})

CleanupOldSessions(store, t) ==
    Drop(store, {k \in DOMAIN store : t - store[k].created_at > SessionTTL})

\* get_session_stats: clean up, then count what is left.
GetSessionStats(store, t) ==
    LET kept == CleanupOldSessions(store, t)
        total_sessions == Cardinality(DOMAIN kept)
        guest_sessions == Cardinality({k \in DOMAIN kept : kept[k].is_guest})
    IN [store |-> kept,
        total_sessions |-> total_sessions,
        guest_sessions |-> guest_sessions,
        authenticated_sessions |-> total_sessions - guest_sessions,
        session_keys |-> DOMAIN kept]

(***************************************************************************)
(* Rate limiter (dependencies.py: limiter; analyze.py: @limiter.limit)     *)
(***************************************************************************)

\* settings.RATE_LIMIT_REQUESTS: read from the environment, 10 when unset.
\* The model takes a small configured value.
RATE_LIMIT_REQUESTS == 2
\* settings.RATE_LIMIT_WINDOW, in seconds.
RATE_LIMIT_WINDOW == 60

NoWindow == [count |-> 0, expiry |-> 0]

\* Variant: one counter for every caller.
MutLimiterKeyGlobal(username, client_ip) == <<>>

\* key_func=get_remote_address: the counter is chosen by the client address.
LimiterKey(username, client_ip) == client_ip

\* Variant: the hit is allowed while the incremented count is below the limit.
MutLimiterHitOffByOne(storage, key, t) ==
    LET held == IF key \in DOMAIN storage THEN storage[key] ELSE NoWindow
        live == IF held.count > 0 /\ held.expiry <= t THEN NoWindow ELSE held
        count == live.count + 1
        expiry == IF live.count = 0 THEN t + RATE_LIMIT_WINDOW ELSE live.expiry
    IN [allowed |-> count < RATE_LIMIT_REQUESTS,
        storage |-> Put(storage, key, [count |-> count, expiry |-> expiry])]

\* The fixed-window counter of the limiter's memory storage: an expired
\* counter is dropped, the counter is incremented on every hit, its expiry is
\* set when it is created, and the hit is allowed while the incremented count
\* does not exceed the limit.
LimiterHit(storage, key, t) ==
    LET held == IF key \in DOMAIN storage THEN storage[key] ELSE NoWindow
        live == IF held.count > 0 /\ held.expiry <= t THEN NoWindow ELSE held
        count == live.count + 1
        expiry == IF live.count = 0 THEN t + RATE_LIMIT_WINDOW ELSE live.expiry
    IN [allowed |-> count <= RATE_LIMIT_REQUESTS,
        storage |-> Put(storage, key, [count |-> count, expiry |-> expiry])]

(***************************************************************************)
(* Data collection (analysis.py: _search_sector_news, _collect_market_data)*)
(***************************************************************************)

MaxNews == 10

\* What the search provider does for one query: it raises, or it returns a
\* list of results (title, body, href).
QueryFails == [raised |-> TRUE, results |-> <<>>]
QueryReturns(results) == [raised |-> FALSE, results |-> results]

SearchHit(title, body, href) == [title |-> title, body |-> body, href |-> href]

NewsItem(result) ==
    [title |-> result.title, snippet |-> result.body, url |-> result.href,
     source |-> "DuckDuckGo"]

\* The loop over the queries: a query that raises contributes nothing.
RECURSIVE GatherNews(_)
GatherNews(queries) ==
    IF queries = <<>> THEN <<>>
    ELSE LET q == Head(queries)
             items == IF q.raised THEN <<>>
                      ELSE [i \in 1..Len(q.results) |-> NewsItem(q.results[i])]
         IN items \o GatherNews(Tail(queries))

\* Variant: of the items with one title the last is kept.
RECURSIVE MutUniqueByTitleKeepsLast(_, _)
MutUniqueByTitleKeepsLast(items, seen_titles) ==
    IF items = <<>> THEN <<>>
    ELSE IF \E k \in 2..Len(items) : items[k].title = Head(items).title
    THEN MutUniqueByTitleKeepsLast(Tail(items), seen_titles)
    ELSE <<Head(items)>> \o MutUniqueByTitleKeepsLast(Tail(items), seen_titles)

\* Remove duplicates based on title, keeping the first occurrence.
RECURSIVE UniqueByTitle(_, _)
UniqueByTitle(items, seen_titles) ==
    IF items = <<>> THEN <<>>
    ELSE IF Head(items).title \in seen_titles
    THEN UniqueByTitle(Tail(items), seen_titles)
    ELSE <<Head(items)>>
             \o UniqueByTitle(Tail(items), seen_titles \cup {Head(items).title})

Take(s, n) == SubSeq(s, 1, IF Len(s) < n THEN Len(s) ELSE n)

\* _search_sector_news: every failure of a query is caught inside the loop,
\* so the function returns a list and never raises.
SearchSectorNews(queries) ==
    [raised |-> FALSE,
     news |-> Take(UniqueByTitle(GatherNews(queries), {}), MaxNews)]

\* _collect_market_data: "error" is set only when _search_sector_news raises.
CollectMarketData(sector, queries) ==
    LET news_data == SearchSectorNews(queries) IN
    IF news_data.raised
    THEN [news |-> <<>>, sources |-> <<>>, sector |-> sector,
          has_error |-> TRUE]
    ELSE [news |-> news_data.news, sources |-> <<"DuckDuckGo Search">>,
          sector |-> sector, has_error |-> FALSE]

(***************************************************************************)
(* Report synthesis (gemini.py: GeminiService)                             *)
(***************************************************************************)

FallbackNews == 3

\* What the generative backend does with a prompt: it raises, or it returns
\* a completion (possibly empty).
BackendRaises == [raised |-> TRUE, text |-> ""]
BackendReturns(text) == [raised |-> FALSE, text |-> text]

\* Variant: the template mentions whether the collection was marked failed.
MutGenerateFallbackAnalysisMarksFailure(sector, market_data) ==
    LET shown == Take(market_data.news, FallbackNews) IN
    [kind |-> "fallback",
     sector |-> sector,
     news |-> [i \in 1..Len(shown) |-> <<shown[i].title, shown[i].snippet>>],
     text |-> IF market_data.has_error THEN "partial" ELSE ""]

\* _generate_fallback_analysis: the template's text is determined by the
\* sector and by the title and snippet of the first three news items.
GenerateFallbackAnalysis(sector, market_data) ==
    LET shown == Take(market_data.news, FallbackNews) IN
    [kind |-> "fallback",
     sector |-> sector,
     news |-> [i \in 1..Len(shown) |-> <<shown[i].title, shown[i].snippet>>],
     text |-> ""]

\* generate_content is reached only when a model is configured.
BackendCalled(model) == model

\* Variant: an empty completion is returned as the report.
MutAnalyzeSectorDataPassesEmpty(model, backend, sector, market_data) ==
    IF ~model THEN GenerateFallbackAnalysis(sector, market_data)
    ELSE IF backend.raised THEN GenerateFallbackAnalysis(sector, market_data)
    ELSE [kind |-> "backend", sector |-> <<>>, news |-> <<>>,
          text |-> backend.text]

\* analyze_sector_data: the backend is called only when a model is
\* configured; a raise or an empty completion routes to the fallback.
AnalyzeSectorData(model, backend, sector, market_data) ==
    IF ~model THEN GenerateFallbackAnalysis(sector, market_data)
    ELSE IF backend.raised THEN GenerateFallbackAnalysis(sector, market_data)
    ELSE IF backend.text # ""
    THEN [kind |-> "backend", sector |-> <<>>, news |-> <<>>,
          text |-> backend.text]
    ELSE GenerateFallbackAnalysis(sector, market_data)

(***************************************************************************)
(* Analysis service (analysis.py: MarketAnalysisService)                   *)
(***************************************************************************)

NoContext ==
    [present |-> FALSE, username |-> <<>>, is_guest |-> FALSE,
     session_id |-> <<>>]

NoFault == "none"

\* Variant: the key is built without the separator.
MutCacheKeyNoSeparator(user_session, sector) == user_session \o sector

\* f"{user_session}_{sector}"
CacheKey(user_session, sector) == user_session \o <<"_">> \o sector

\* Variant: the status names the synthesis path.
MutSuccessResultStatusByPath(sector, analysis_report, market_data, t) ==
    [sector |-> sector,
     analysis |-> analysis_report,
     has_sources |-> TRUE,
     data_sources |-> market_data.sources,
     generated_at |-> t,
     status |-> IF analysis_report.kind = "fallback" THEN "fallback"
                ELSE "success",
     has_error |-> FALSE,
     error |-> "",
     user_context |-> NoContext]

SuccessResult(sector, analysis_report, market_data, t) ==
    [sector |-> sector,
     analysis |-> analysis_report,
     has_sources |-> TRUE,
     data_sources |-> market_data.sources,
     generated_at |-> t,
     status |-> "success",
     has_error |-> FALSE,
     error |-> "",
     user_context |-> NoContext]

\* The except branch: the error body names the sector, "error" is str(e).
ErrorResult(sector, fault, t) ==
    [sector |-> sector,
     analysis |-> [kind |-> "error_body", sector |-> sector, news |-> <<>>,
                   text |-> ""],
     has_sources |-> FALSE,
     data_sources |-> <<>>,
     generated_at |-> t,
     status |-> "error",
     has_error |-> TRUE,
     error |-> fault,
     user_context |-> NoContext]

NoResult ==
    [sector |-> <<>>,
     analysis |-> [kind |-> "none", sector |-> <<>>, news |-> <<>>, text |-> ""],
     has_sources |-> FALSE,
     data_sources |-> <<>>,
     generated_at |-> 0,
     status |-> "none",
     has_error |-> FALSE,
     error |-> "",
     user_context |-> NoContext]

\* Variant: the cache is never consulted.
MutAnalyzeSectorNoLookup(cache, model, sector, user_session, queries, backend, fault, t) ==
    LET cache_key == CacheKey(user_session, sector) IN
    IF fault # NoFault
    THEN [result |-> ErrorResult(sector, fault, t), cache |-> cache,
          cached |-> FALSE, hit |-> FALSE, collected |-> TRUE]
    ELSE LET market_data == CollectMarketData(sector, queries)
             analysis_report ==
                 AnalyzeSectorData(model, backend, sector, market_data)
             result == SuccessResult(sector, analysis_report, market_data, t)
         IN [result |-> result, cache |-> Put(cache, cache_key, result),
             cached |-> TRUE, hit |-> FALSE, collected |-> TRUE]

\* Variant: the except branch stores its result in the cache.
MutAnalyzeSectorCachesErrors(cache, model, sector, user_session, queries, backend, fault, t) ==
    LET cache_key == CacheKey(user_session, sector) IN
    IF cache_key \in DOMAIN cache
    THEN [result |-> cache[cache_key], cache |-> cache, cached |-> TRUE,
          hit |-> TRUE, collected |-> FALSE]
    ELSE IF fault # NoFault
    THEN [result |-> ErrorResult(sector, fault, t),
          cache |-> Put(cache, cache_key, ErrorResult(sector, fault, t)),
          cached |-> TRUE, hit |-> FALSE, collected |-> TRUE]
    ELSE LET market_data == CollectMarketData(sector, queries)
             analysis_report ==
                 AnalyzeSectorData(model, backend, sector, market_data)
             result == SuccessResult(sector, analysis_report, market_data, t)
         IN [result |-> result, cache |-> Put(cache, cache_key, result),
             cached |-> TRUE, hit |-> FALSE, collected |-> TRUE]

\* analyze_sector.  "cached" says whether the returned dict is the object the
\* cache holds (a hit, or a result just stored); "collected" whether
\* _collect_market_data ran.  A fault is an exception raised inside the try
\* block after the cache check.
AnalyzeSector(cache, model, sector, user_session, queries, backend, fault, t) ==
    LET cache_key == CacheKey(user_session, sector) IN
    IF cache_key \in DOMAIN cache
    THEN [result |-> cache[cache_key], cache |-> cache, cached |-> TRUE,
          hit |-> TRUE, collected |-> FALSE]
    ELSE IF fault # NoFault
    THEN [result |-> ErrorResult(sector, fault, t), cache |-> cache,
          cached |-> FALSE, hit |-> FALSE, collected |-> TRUE]
    ELSE LET market_data == CollectMarketData(sector, queries)
             analysis_report ==
                 AnalyzeSectorData(model, backend, sector, market_data)
             result == SuccessResult(sector, analysis_report, market_data, t)
         IN [result |-> result, cache |-> Put(cache, cache_key, result),
             cached |-> TRUE, hit |-> FALSE, collected |-> TRUE]

\* Variant: only one of the keys that start with the session string goes.
MutClearUserCacheOneKey(cache, user_session) ==
    LET keys_to_remove ==
            {key \in DOMAIN cache : StartsWith(key, user_session)}
    IN IF keys_to_remove = {} THEN cache
       ELSE Drop(cache, {CHOOSE key \in keys_to_remove : TRUE})

\* clear_user_cache: every key that starts with the session string goes.
ClearUserCache(cache, user_session) ==
    Drop(cache, {key \in DOMAIN cache : StartsWith(key, user_session)})

(***************************************************************************)
(* The endpoint (analyze.py: analyze_sector)                               *)
(***************************************************************************)

SessionIdLen == 10

\* user_session[:10] + "..."
UserContext(current_user, user_session) ==
    [present |-> TRUE,
     username |-> current_user.username,
     is_guest |-> current_user.is_guest,
     session_id |-> Take(user_session, SessionIdLen) \o <<".", ".", ".">>]

(***************************************************************************)
(* Bounds and inputs of the model                                          *)
(***************************************************************************)

\* Requests handled in one behaviour, clock advances in one behaviour, and
\* the clock (seconds) at process start.
MaxRequests == 4
MaxTicks == 3
StartTime == 7200

\* A clock advance that stays inside a rate-limit window.
HalfWindow == 30

ip1 == <<"1", ".", "1">>
ip2 == <<"1", ".", "2">>
ClientIPs == {ip1, ip2}

hit1 == SearchHit("t1", "b1", "u1")
hit2 == SearchHit("t2", "b2", "u2")
hit3 == SearchHit("t1", "b3", "u3")

NoNews == <<QueryFails, QueryFails, QueryFails>>
SomeNews == <<QueryReturns(<<hit1, hit2>>), QueryFails, QueryReturns(<<hit3>>)>>

\* What the collaborators do during one request: either an exception escapes
\* inside analyze_sector, or the search and the backend behave as drawn.
Behaves(queries, backend) ==
    [queries |-> queries, backend |-> backend, fault |-> NoFault]
Faults(fault) ==
    [queries |-> NoNews, backend |-> BackendRaises, fault |-> fault]

(***************************************************************************)
(* State                                                                   *)
(***************************************************************************)

VARIABLES
    now,              \* time.time(), in seconds
    ticks,            \* clock advances so far
    nreq,             \* requests handled so far
    gemini_model,     \* GeminiService.model is set (a key is configured)
    session_store,    \* dependencies.session_store
    limiter_storage,  \* the limiter's counters
    session_cache,    \* MarketAnalysisService.session_cache
    last,             \* observation: the request handled last
    prior_result,     \* observation: last result analyze returned per
                      \* (session, sector) since the last invalidation
    prior_session,    \* observation: last session resolution per
                      \* (identity, origin)
    ref_origin,       \* observation: fixed windows kept per origin
    ref_pair,         \* observation: fixed windows kept per (identity, origin)
    prior_input,      \* observation: the raw sector and the status of the
                      \* analysis run last per session since the last
                      \* invalidation
    cleared,          \* observation: the session invalidated last, while no
                      \* analysis has run since
    tasks,            \* the requests in flight on the event loop
    running,          \* the task that holds the event loop (0: none)
    vin,              \* input of a function applied on its own
    vout              \* its outcome

vars ==
    <<now, ticks, nreq, gemini_model, session_store, limiter_storage,
      session_cache, last, prior_result, prior_session, ref_origin, ref_pair,
      prior_input, cleared, tasks, running, vin, vout>>

\* The event loop's part of the state.
loop == <<tasks, running>>

\* The fields of AnalysisResult: the result without the user context the
\* endpoint attaches.
Core(result) == [result EXCEPT !.user_context = NoContext]

NoPriorSession == [present |-> FALSE, t |-> 0, key |-> <<>>, count |-> 0]

NoPriorInput == [present |-> FALSE, raw |-> <<>>, status |-> "none"]

NoCleared == [present |-> FALSE, session |-> <<>>, removed |-> {}]

\* A fixed window as the limiter is specified: the count restarts once the
\* window size has elapsed since the window start, a call is allowed while
\* the count is below the limit, and only allowed calls are counted.
RefWindow(windows, key, t) ==
    LET fresh == [start |-> t, count |-> 0]
        cur == IF key \notin DOMAIN windows THEN fresh
               ELSE IF t - windows[key].start >= RATE_LIMIT_WINDOW THEN fresh
               ELSE windows[key]
        allowed == cur.count < RATE_LIMIT_REQUESTS
    IN [allowed |-> allowed,
        windows |-> Put(windows, key,
                        [cur EXCEPT !.count = IF allowed THEN @ + 1 ELSE @])]

NoRequest ==
    [cred |-> NoCred, ip |-> <<>>, t |-> 0, raw |-> <<>>,
     stage |-> "none", code |-> 0, user |-> NoUser, session |-> <<>>,
     count_after |-> 0, sess_prior |-> NoPriorSession,
     allowed |-> FALSE, ref_origin_allowed |-> FALSE,
     ref_pair_allowed |-> FALSE,
     sector |-> <<>>, result |-> NoResult,
     hit |-> FALSE, collected |-> FALSE,
     has_prior |-> FALSE, prior |-> NoResult,
     prior_input |-> NoPriorInput, cleared |-> NoCleared]

NoValidation == [done |-> FALSE, ok |-> FALSE, value |-> <<>>]

StartWith(models, inputs) ==
    /\ now = StartTime
    /\ ticks = 0
    /\ nreq = 0
    /\ gemini_model \in models
    /\ session_store = EmptyMap
    /\ limiter_storage = EmptyMap
    /\ session_cache = EmptyMap
    /\ last = NoRequest
    /\ prior_result = EmptyMap
    /\ prior_session = EmptyMap
    /\ ref_origin = EmptyMap
    /\ ref_pair = EmptyMap
    /\ prior_input = EmptyMap
    /\ cleared = NoCleared
    /\ tasks = <<>>
    /\ running = 0
    /\ vin \in inputs
    /\ vout = NoValidation

Start(models) == StartWith(models, {<<>>})

(***************************************************************************)
(* Operations                                                              *)
(***************************************************************************)

\* One GET /analyze/{sector}.  The dependencies run first (get_current_user,
\* then get_user_session), then the limiter's wrapper around the endpoint,
\* then the endpoint body (validate_sector_name, analyze_sector, the user
\* context).  No step of the handler awaits a pending future, so the event
\* loop runs it from start to end without interleaving another request.
HandleRequest(credentials, client_ip, raw, env) ==
    LET auth == GetCurrentUser(credentials)
        seen == [NoRequest EXCEPT !.cred = credentials, !.ip = client_ip,
                                  !.raw = raw,
                                  !.t = now, !.code = auth.code,
                                  !.stage = "auth"]
        sess == GetUserSession(session_store, auth.user, client_ip, now)
        upair == <<auth.user.username, client_ip>>
        lim == LimiterHit(limiter_storage,
                          LimiterKey(auth.user.username, client_ip), now)
        rorigin == RefWindow(ref_origin, client_ip, now)
        rpair == RefWindow(ref_pair, upair, now)
        resolved ==
            [seen EXCEPT !.user = auth.user,
                         !.session = sess.key,
                         !.count_after = sess.store[sess.key].request_count,
                         !.sess_prior =
                             IF upair \in DOMAIN prior_session
                             THEN prior_session[upair] ELSE NoPriorSession,
                         !.allowed = lim.allowed,
                         !.ref_origin_allowed = rorigin.allowed,
                         !.ref_pair_allowed = rpair.allowed]
        valid == ValidateSectorName(raw)
    IN
    /\ nreq < MaxRequests
    /\ nreq' = nreq + 1
    /\ UNCHANGED <<now, ticks, gemini_model, loop, vin, vout>>
    /\ IF ~auth.ok
       THEN /\ last' = seen
            /\ UNCHANGED <<session_store, limiter_storage, session_cache,
                           prior_result, prior_session, ref_origin, ref_pair,
                           prior_input, cleared>>
       ELSE /\ session_store' = sess.store
            /\ limiter_storage' = lim.storage
            /\ prior_session' =
                   Put(prior_session, upair,
                       [present |-> TRUE, t |-> now, key |-> sess.key,
                        count |-> sess.store[sess.key].request_count])
            /\ ref_origin' = rorigin.windows
            /\ ref_pair' = rpair.windows
            /\ IF ~lim.allowed
               THEN /\ last' = [resolved EXCEPT !.stage = "limit", !.code = 429]
                    /\ UNCHANGED <<session_cache, prior_result, prior_input,
                                   cleared>>
               ELSE IF ~valid.ok
               THEN /\ last' = [resolved EXCEPT !.stage = "validate",
                                                !.code = valid.code]
                    /\ UNCHANGED <<session_cache, prior_result, prior_input,
                                   cleared>>
               ELSE LET clean_sector == valid.value
                        done == AnalyzeSector(session_cache, gemini_model,
                                              clean_sector, sess.key,
                                              env.queries, env.backend,
                                              env.fault, now)
                        context == UserContext(auth.user, sess.key)
                        \* analysis_result["user_context"] = {...} writes
                        \* into the dict analyze_sector returned, which is
                        \* the cached object unless the except branch built it.
                        response == [done.result EXCEPT !.user_context = context]
                        cache_key == CacheKey(sess.key, clean_sector)
                        sx == <<sess.key, clean_sector>>
                    IN /\ session_cache' =
                              IF done.cached
                              THEN Put(done.cache, cache_key, response)
                              ELSE done.cache
                       /\ prior_result' = Put(prior_result, sx, Core(done.result))
                       /\ prior_input' =
                              Put(prior_input, sess.key,
                                  [present |-> TRUE, raw |-> raw,
                                   status |-> done.result.status])
                       /\ cleared' = NoCleared
                       /\ last' =
                              [resolved EXCEPT
                                  !.stage = "analyze", !.code = 200,
                                  !.sector = clean_sector,
                                  !.result = Core(done.result),
                                  !.hit = done.hit,
                                  !.collected = done.collected,
                                  !.has_prior = sx \in DOMAIN prior_result,
                                  !.prior = IF sx \in DOMAIN prior_result
                                            THEN prior_result[sx] ELSE NoResult,
                                  !.prior_input =
                                      IF sess.key \in DOMAIN prior_input
                                      THEN prior_input[sess.key]
                                      ELSE NoPriorInput,
                                  !.cleared = cleared]

\* The clock advances by one of the steps.
TickBy(steps) ==
    /\ ticks < MaxTicks
    /\ \E d \in steps : now' = now + d
    /\ ticks' = ticks + 1
    /\ UNCHANGED <<nreq, gemini_model, session_store, limiter_storage,
                   session_cache, last, prior_result, prior_session,
                   ref_origin, ref_pair, prior_input, cleared, loop, vin, vout>>

\* MarketAnalysisService.clear_user_cache(user_session), for a session of
\* the table.
Invalidate ==
    /\ \E user_session \in DOMAIN session_store :
           /\ session_cache' = ClearUserCache(session_cache, user_session)
           /\ session_cache' # session_cache
           /\ cleared' = [present |-> TRUE, session |-> user_session,
                          removed |-> DOMAIN session_cache
                                          \ DOMAIN session_cache']
    /\ prior_result' = EmptyMap
    /\ prior_input' = EmptyMap
    /\ UNCHANGED <<now, ticks, nreq, gemini_model, session_store,
                   limiter_storage, last, prior_session, ref_origin, ref_pair,
                   loop, vin, vout>>

\* cleanup_old_sessions()
Cleanup ==
    /\ session_store' = CleanupOldSessions(session_store, now)
    /\ session_store' # session_store
    /\ UNCHANGED <<now, ticks, nreq, gemini_model, limiter_storage,
                   session_cache, last, prior_result, prior_session,
                   ref_origin, ref_pair, prior_input, cleared, loop, vin, vout>>

(***************************************************************************)
(* Specifications.  Each runs the same handler; they differ in the inputs  *)
(* the environment draws.                                                  *)
(***************************************************************************)

Quiet == Behaves(NoNews, BackendRaises)

\* Identity resolution: every kind of credential from one origin.
IdentityRequest ==
    \E credentials \in Credentials :
        HandleRequest(credentials, ip1, <<"i", "t">>, Quiet)

IdentityNext == IdentityRequest \/ TickBy({HourSeconds})

SpecIdentity == Start({FALSE}) /\ [][IdentityNext]_vars

\* Sessions and validation: from one origin, a guest asking for a valid and
\* for an invalid sector and a user asking for an invalid one, the clock
\* moving inside the hour and past it.
SessionRequest ==
    \E request \in {<<NoCred, <<"i", "t">>>>, <<NoCred, <<"a", "!">>>>,
                     <<[kind |-> "payload", sub |-> alice], <<"a", "!">>>>} :
        HandleRequest(request[1], ip1, request[2], Quiet)

SessionNext == SessionRequest \/ TickBy({HalfWindow, HourSeconds})

SpecSession == Start({FALSE}) /\ [][SessionNext]_vars

\* Rate limiting: a guest and a user from two origins, the clock moving
\* inside the window and past it.
LimiterRequest ==
    \E credentials \in {NoCred, [kind |-> "payload", sub |-> alice]},
       client_ip \in ClientIPs :
        HandleRequest(credentials, client_ip, <<"i", "t">>, Quiet)

LimiterNext == LimiterRequest \/ TickBy({HalfWindow})

SpecLimiter == Start({FALSE}) /\ [][LimiterNext]_vars

\* The analysis cache: one guest session, two sectors, collaborators that
\* deliver or fault, invalidation.
CacheRequest ==
    \E raw \in {<<"A", "i">>, <<"i", "t">>},
       env \in {Behaves(SomeNews, BackendReturns("report")), Faults("e1")} :
        HandleRequest(NoCred, ip1, raw, env)

CacheNext == CacheRequest \/ TickBy({HalfWindow}) \/ Invalidate

SpecCache == Start(BOOLEAN) /\ [][CacheNext]_vars

\* Internal faults: one guest session asking for one sector while the
\* analysis delivers or raises an exception with one of two texts.
FaultTexts == {"e1", "e2"}

FaultRequest ==
    \E env \in {Behaves(SomeNews, BackendRaises)}
                   \cup {Faults(fault) : fault \in FaultTexts} :
        HandleRequest(NoCred, ip1, <<"i", "t">>, env)

FaultNext == FaultRequest \/ TickBy({HalfWindow})

SpecFault == Start({FALSE}) /\ [][FaultNext]_vars

\* Invalidation across sessions: one guest from one origin asking for one
\* sector, the clock moving to the next hour and to an hour whose number has
\* one digit more, so that the guest's session keys of different hours are
\* in the table together.
HoursToLongerBucket == 18

ConfineRequest ==
    HandleRequest(NoCred, ip1, <<"i", "t">>, Behaves(SomeNews, BackendRaises))

ConfineNext ==
    \/ ConfineRequest
    \/ TickBy({HourSeconds, HoursToLongerBucket * HourSeconds})
    \/ Invalidate

SpecConfine == Start({FALSE}) /\ [][ConfineNext]_vars

\* Cache isolation: the guest and a user whose name holds the separator,
\* from one origin, asking for sectors that hold the separator and digits,
\* the clock moving to an hour whose number continues the digits of the
\* first.
IsolateSectors == {<<"i", "t">>, <<"_", "i", "t">>, <<"0", "_", "i", "t">>}

IsolateRequest ==
    \E credentials \in {NoCred, [kind |-> "payload", sub |-> under]},
       raw \in IsolateSectors :
        HandleRequest(credentials, ip1, raw, Behaves(SomeNews, BackendRaises))

\* The clock moves once.
IsolateTick == ticks = 0 /\ TickBy({HoursToLongerBucket * HourSeconds})

IsolateNext == IsolateRequest \/ IsolateTick

SpecIsolate == Start({FALSE}) /\ [][IsolateNext]_vars

\* Sector normalization: one guest session asking for one sector written in
\* several ways and for another sector, collaborators that deliver or fault.
Spellings ==
    { <<"A", "i">>, <<" ", "a", "i">>, <<"a", "I", "\t">>, <<"i", "t">> }

NormalizeRequest ==
    \E raw \in Spellings,
       env \in {Behaves(SomeNews, BackendReturns("report")), Faults("e1")} :
        HandleRequest(NoCred, ip1, raw, env)

NormalizeNext == NormalizeRequest \/ TickBy({HalfWindow})

SpecNormalize == Start({FALSE}) /\ [][NormalizeNext]_vars

\* Data collection alone: each of the three lookups raises or returns up to
\* max_results results, some of them under the same title.
MaxResults == 3

Hits == {hit1, hit2, hit3}

Lookups ==
    {QueryFails} \cup
    UNION { {QueryReturns(results) : results \in [1..n -> Hits]} :
            n \in 0..MaxResults }

CollectInputs ==
    { [sector |-> <<"i", "t">>, queries |-> <<q1, q2, q3>>] :
          q1 \in Lookups, q2 \in Lookups, q3 \in Lookups }

\* analyze_sector on an empty cache, with what _search_sector_news gathered
\* and what _collect_market_data passed on.
Collect ==
    /\ ~vout.done
    /\ LET done == AnalyzeSector(EmptyMap, gemini_model, vin.sector,
                                 SessionKey(guest, ip1, now), vin.queries,
                                 BackendRaises, NoFault, now)
       IN vout' = [done |-> TRUE, ok |-> done.result.status = "success",
                   value |-> [gathered |-> GatherNews(vin.queries),
                              data |-> CollectMarketData(vin.sector,
                                                         vin.queries),
                              result |-> done.result]]
    /\ UNCHANGED <<now, ticks, nreq, gemini_model, session_store,
                   limiter_storage, session_cache, last, prior_result,
                   prior_session, ref_origin, ref_pair, prior_input, cleared,
                   loop, vin>>

SpecCollect == StartWith(BOOLEAN, CollectInputs) /\ [][Collect]_vars

\* Report synthesis alone: analyze_sector_data and the result built from its
\* report, applied time after time to market data with and without news,
\* with and without the failure marker, while the backend raises, returns
\* nothing or returns a report.
MarketData(sector, queries, failed) ==
    [news |-> SearchSectorNews(queries).news,
     sources |-> IF failed THEN <<>> ELSE <<"DuckDuckGo Search">>,
     sector |-> sector,
     has_error |-> failed]

SynthInputs ==
    { [sector |-> sector, market_data |-> MarketData(sector, queries, failed),
       backend |-> backend] :
          sector \in {<<"i", "t">>, <<"a", "i">>},
          queries \in {NoNews, SomeNews},
          failed \in BOOLEAN,
          backend \in {BackendRaises, BackendReturns(""),
                       BackendReturns("report")} }

NoCall ==
    [sector |-> <<>>, market_data |-> MarketData(<<>>, NoNews, FALSE),
     backend |-> BackendRaises, t |-> 0, called |-> FALSE,
     report |-> NoResult.analysis, result |-> NoResult]

Synthesize ==
    /\ \E input \in SynthInputs :
           LET report == AnalyzeSectorData(gemini_model, input.backend,
                                           input.sector, input.market_data)
               call == [sector |-> input.sector,
                        market_data |-> input.market_data,
                        backend |-> input.backend,
                        t |-> now,
                        called |-> BackendCalled(gemini_model),
                        report |-> report,
                        result |-> SuccessResult(input.sector, report,
                                                 input.market_data, now)]
           IN /\ vin' = input
              /\ vout' = [done |-> TRUE, ok |-> TRUE,
                          value |-> [has_prev |-> vout.done,
                                     prev |-> IF vout.done THEN vout.value.cur
                                              ELSE NoCall,
                                     cur |-> call]]
    /\ UNCHANGED <<now, ticks, nreq, gemini_model, session_store,
                   limiter_storage, session_cache, last, prior_result,
                   prior_session, ref_origin, ref_pair, prior_input, cleared,
                   loop>>

SynthNext == Synthesize \/ TickBy({HalfWindow})

SpecSynth == Start(BOOLEAN) /\ [][SynthNext]_vars

\* get_session_stats()
Stats ==
    /\ LET stats == GetSessionStats(session_store, now) IN
           /\ session_store' = stats.store
           /\ vout' = [done |-> TRUE, ok |-> TRUE,
                       value |-> [t |-> now,
                                  total_sessions |-> stats.total_sessions,
                                  guest_sessions |-> stats.guest_sessions,
                                  authenticated_sessions |->
                                      stats.authenticated_sessions,
                                  session_keys |-> stats.session_keys,
                                  expired |-> DOMAIN session_store
                                                 \ DOMAIN stats.store]]
    /\ UNCHANGED <<now, ticks, nreq, gemini_model, limiter_storage,
                   session_cache, last, prior_result, prior_session,
                   ref_origin, ref_pair, prior_input, cleared, loop, vin>>

\* Session statistics: a guest and a user from one origin, the clock moving
\* by a day, so that records get exactly 24 hours old and older.
StatsRequest ==
    \E credentials \in {NoCred, [kind |-> "payload", sub |-> alice]} :
        HandleRequest(credentials, ip1, <<"i", "t">>, Quiet)

StatsNext == StatsRequest \/ TickBy({SessionTTL}) \/ Stats

SpecStats == Start({FALSE}) /\ [][StatsNext]_vars

(***************************************************************************)
(* The event loop.  Every request is a task; the loop runs one task until  *)
(* the task finishes or suspends at an await, and only then takes another. *)
(***************************************************************************)

\* Tasks in one behaviour.
MaxTasks == 3

\* A time after which every earlier session is older than 24 hours.
DayAndMore == SessionTTL + HalfWindow

\* The awaits of the handler (analyze.py:59, analysis.py:36, 39, 83) wait for
\* coroutines whose bodies only make synchronous calls (DDGS().text,
\* generate_content), and get_current_user and get_user_session contain no
\* await: no step of a task hands the event loop back before the task ends.
YieldingSteps == {}

\* Variant: the data collection suspends the task until the lookups answer.
MutSuspendsAtCollect(pc) == pc = "collect"

\* Variant: the session steps suspend the task.
MutSuspendsInSession(pc) == pc \in {"session_key", "session_create", "session_read"}

Suspends(pc) == pc \in YieldingSteps

NewTask(kind) ==
    [kind |-> kind, pc |-> IF kind = "analyze" THEN "auth" ELSE "scan",
     arrived_with |-> {}, cache_on_arrival |-> {},
     user |-> NoUser, session |-> <<>>, count_read |-> 0,
     created |-> FALSE, counted |-> FALSE, key_error |-> FALSE,
     sector |-> <<>>, checked |-> FALSE, hit |-> FALSE, collected |-> FALSE,
     market_data |-> MarketData(<<>>, NoNews, FALSE),
     report |-> NoResult.analysis, result |-> NoResult,
     wrote |-> FALSE, overwrote |-> FALSE, code |-> 0, expired |-> {},
     raised |-> "none"]

InFlight == {i \in 1..Len(tasks) : tasks[i].pc # "done"}

observations ==
    <<last, prior_result, prior_session, ref_origin, ref_pair, prior_input,
      cleared, vin, vout>>

\* A task of the kind is created when the loop is free.
Arrive(kind) ==
    /\ running = 0
    /\ Len(tasks) < MaxTasks
    /\ tasks' = Append(tasks,
                       [NewTask(kind) EXCEPT
                            !.arrived_with = InFlight,
                            !.cache_on_arrival = DOMAIN session_cache])
    /\ UNCHANGED <<now, ticks, nreq, gemini_model, session_store,
                   limiter_storage, session_cache, running, observations>>

\* GET /analyze/it without a credential from one origin.
ArriveRequest == Arrive("analyze")

\* A call of cleanup_old_sessions, made by a task of its own.
ArriveCleanup == Arrive("cleanup")

\* Task i holds the loop, or can take it, at step pc.
AtStep(i, pc) ==
    /\ i \in 1..Len(tasks)
    /\ tasks[i].pc = pc
    /\ running \in {0, i}

\* Task i becomes task and keeps the loop unless it is done or suspends.
Move(i, task) ==
    /\ tasks' = [tasks EXCEPT ![i] = task]
    /\ running' = IF task.pc = "done" \/ Suspends(tasks[i].pc) THEN 0 ELSE i

LoopRaw == <<"i", "t">>

\* get_current_user
ResolveIdentity(i) ==
    /\ AtStep(i, "auth")
    /\ LET auth == GetCurrentUser(NoCred) IN
       Move(i, IF auth.ok
               THEN [tasks[i] EXCEPT !.user = auth.user, !.pc = "session_key"]
               ELSE [tasks[i] EXCEPT !.code = auth.code, !.pc = "done"])
    /\ UNCHANGED <<now, ticks, nreq, gemini_model, session_store,
                   limiter_storage, session_cache, observations>>

\* get_user_session, lines 94-100: the key and the test for its record.
SessionLookup(i) ==
    /\ AtStep(i, "session_key")
    /\ LET session_key == SessionKey(tasks[i].user.username, ip1, now) IN
       Move(i, [tasks[i] EXCEPT
                    !.session = session_key,
                    !.pc = IF session_key \in DOMAIN session_store
                           THEN "session_read" ELSE "session_create"])
    /\ UNCHANGED <<now, ticks, nreq, gemini_model, session_store,
                   limiter_storage, session_cache, observations>>

\* get_user_session, lines 101-107: the record is created.
SessionCreate(i) ==
    /\ AtStep(i, "session_create")
    /\ session_store' =
           Put(session_store, tasks[i].session,
               [username |-> tasks[i].user.username, ip |-> ip1,
                created_at |-> now, request_count |-> 0,
                is_guest |-> tasks[i].user.is_guest, last_seen |-> now])
    /\ Move(i, [tasks[i] EXCEPT !.created = TRUE, !.pc = "session_read"])
    /\ UNCHANGED <<now, ticks, nreq, gemini_model, limiter_storage,
                   session_cache, observations>>

\* get_user_session, line 110: the count is read (KeyError without record).
SessionRead(i) ==
    /\ AtStep(i, "session_read")
    /\ Move(i, IF tasks[i].session \in DOMAIN session_store
               THEN [tasks[i] EXCEPT
                         !.count_read =
                             session_store[tasks[i].session].request_count,
                         !.pc = "session_write"]
               ELSE [tasks[i] EXCEPT !.key_error = TRUE, !.code = 500,
                                     !.pc = "done"])
    /\ UNCHANGED <<now, ticks, nreq, gemini_model, session_store,
                   limiter_storage, session_cache, observations>>

\* get_user_session, lines 110-111: the count read plus one and last_seen
\* are written (KeyError without record).
SessionWrite(i) ==
    /\ AtStep(i, "session_write")
    /\ IF tasks[i].session \in DOMAIN session_store
       THEN /\ session_store' =
                   [session_store EXCEPT
                        ![tasks[i].session].request_count =
                            tasks[i].count_read + 1,
                        ![tasks[i].session].last_seen = now]
            /\ Move(i, [tasks[i] EXCEPT !.counted = TRUE, !.pc = "limit"])
       ELSE /\ UNCHANGED session_store
            /\ Move(i, [tasks[i] EXCEPT !.key_error = TRUE, !.code = 500,
                                        !.pc = "done"])
    /\ UNCHANGED <<now, ticks, nreq, gemini_model, limiter_storage,
                   session_cache, observations>>

\* @limiter.limit
LimitStep(i) ==
    /\ AtStep(i, "limit")
    /\ LET lim == LimiterHit(limiter_storage,
                             LimiterKey(tasks[i].user.username, ip1), now)
       IN /\ limiter_storage' = lim.storage
          /\ Move(i, IF lim.allowed
                     THEN [tasks[i] EXCEPT !.pc = "cache_check"]
                     ELSE [tasks[i] EXCEPT !.code = 429, !.pc = "done"])
    /\ UNCHANGED <<now, ticks, nreq, gemini_model, session_store,
                   session_cache, observations>>

\* validate_sector_name, then analyze_sector up to the cache check.
CacheCheck(i) ==
    /\ AtStep(i, "cache_check")
    /\ LET valid == ValidateSectorName(LoopRaw)
           cache_key == CacheKey(tasks[i].session, valid.value)
       IN Move(i, IF ~valid.ok
                  THEN [tasks[i] EXCEPT !.code = valid.code, !.pc = "done"]
                  ELSE IF cache_key \in DOMAIN session_cache
                  THEN [tasks[i] EXCEPT !.sector = valid.value,
                                        !.checked = TRUE, !.hit = TRUE,
                                        !.result = session_cache[cache_key],
                                        !.pc = "respond"]
                  ELSE [tasks[i] EXCEPT !.sector = valid.value,
                                        !.checked = TRUE,
                                        !.pc = "collect"])
    /\ UNCHANGED <<now, ticks, nreq, gemini_model, session_store,
                   limiter_storage, session_cache, observations>>

\* await self._collect_market_data(sector)
CollectStep(i) ==
    /\ AtStep(i, "collect")
    /\ Move(i, [tasks[i] EXCEPT
                    !.collected = TRUE,
                    !.market_data = CollectMarketData(tasks[i].sector, SomeNews),
                    !.pc = "synth"])
    /\ UNCHANGED <<now, ticks, nreq, gemini_model, session_store,
                   limiter_storage, session_cache, observations>>

\* await self.gemini_service.analyze_sector_data(sector, market_data)
SynthStep(i) ==
    /\ AtStep(i, "synth")
    /\ Move(i, [tasks[i] EXCEPT
                    !.report = AnalyzeSectorData(gemini_model, BackendRaises,
                                                 tasks[i].sector,
                                                 tasks[i].market_data),
                    !.pc = "store"])
    /\ UNCHANGED <<now, ticks, nreq, gemini_model, session_store,
                   limiter_storage, session_cache, observations>>

\* analyze_sector, lines 42-53: the result is built and stored.
StoreStep(i) ==
    /\ AtStep(i, "store")
    /\ LET cache_key == CacheKey(tasks[i].session, tasks[i].sector)
           result == SuccessResult(tasks[i].sector, tasks[i].report,
                                   tasks[i].market_data, now)
       IN /\ session_cache' = Put(session_cache, cache_key, result)
          /\ Move(i, [tasks[i] EXCEPT
                          !.result = result, !.wrote = TRUE,
                          !.overwrote = cache_key \in DOMAIN session_cache,
                          !.pc = "respond"])
    /\ UNCHANGED <<now, ticks, nreq, gemini_model, session_store,
                   limiter_storage, observations>>

\* The endpoint attaches the user context to the dict it got, which is the
\* cache's entry as long as no other store replaced that entry.
RespondStep(i) ==
    /\ AtStep(i, "respond")
    /\ LET cache_key == CacheKey(tasks[i].session, tasks[i].sector)
           context == UserContext(tasks[i].user, tasks[i].session)
       IN session_cache' =
              IF /\ cache_key \in DOMAIN session_cache
                 /\ Core(session_cache[cache_key]) = Core(tasks[i].result)
              THEN [session_cache EXCEPT ![cache_key].user_context = context]
              ELSE session_cache
    /\ Move(i, [tasks[i] EXCEPT !.result = Core(@), !.code = 200,
                                !.pc = "done"])
    /\ UNCHANGED <<now, ticks, nreq, gemini_model, session_store,
                   limiter_storage, observations>>

\* cleanup_old_sessions, lines 175-181: the expired keys are listed.
CleanupScan(i) ==
    /\ AtStep(i, "scan")
    /\ Move(i, [tasks[i] EXCEPT
                    !.expired = DOMAIN session_store
                                    \ DOMAIN CleanupOldSessions(session_store,
                                                                now),
                    !.pc = "delete"])
    /\ UNCHANGED <<now, ticks, nreq, gemini_model, session_store,
                   limiter_storage, session_cache, observations>>

\* cleanup_old_sessions, lines 183-184: the listed keys are deleted
\* (KeyError for a key that is gone).
CleanupDelete(i) ==
    /\ AtStep(i, "delete")
    /\ session_store' = Drop(session_store, tasks[i].expired)
    /\ Move(i, [tasks[i] EXCEPT
                    !.key_error =
                        ~(tasks[i].expired \subseteq DOMAIN session_store),
                    !.pc = "done"])
    /\ UNCHANGED <<now, ticks, nreq, gemini_model, limiter_storage,
                   session_cache, observations>>

\* The loop starts with an empty session table, or with the record of a
\* guest whose request was rejected for its sector name more than a day ago.
OldSessions ==
    GetUserSession(EmptyMap, [username |-> guest, is_guest |-> TRUE], ip1,
                   StartTime).store

LoopStart ==
    /\ now = StartTime + DayAndMore
    /\ ticks = 0
    /\ nreq = 0
    /\ gemini_model = FALSE
    /\ session_store \in {EmptyMap, OldSessions}
    /\ limiter_storage = EmptyMap
    /\ session_cache = EmptyMap
    /\ last = NoRequest
    /\ prior_result = EmptyMap
    /\ prior_session = EmptyMap
    /\ ref_origin = EmptyMap
    /\ ref_pair = EmptyMap
    /\ prior_input = EmptyMap
    /\ cleared = NoCleared
    /\ tasks = <<>>
    /\ running = 0
    /\ vin = <<>>
    /\ vout = NoValidation

RequestTaskStep(i) ==
    \/ ResolveIdentity(i) \/ SessionLookup(i) \/ SessionCreate(i)
    \/ SessionRead(i) \/ SessionWrite(i) \/ LimitStep(i) \/ CacheCheck(i)
    \/ CollectStep(i) \/ SynthStep(i) \/ StoreStep(i) \/ RespondStep(i)

CleanupTaskStep(i) == CleanupScan(i) \/ CleanupDelete(i)

\* Requests in flight together.
FlightNext == ArriveRequest \/ \E i \in 1..MaxTasks : RequestTaskStep(i)

SpecFlight == LoopStart /\ [][FlightNext]_vars

\* Requests and session clean-ups in flight together.
LoopNext ==
    \/ ArriveRequest
    \/ ArriveCleanup
    \/ \E i \in 1..MaxTasks : RequestTaskStep(i) \/ CleanupTaskStep(i)

SpecLoop == LoopStart /\ [][LoopNext]_vars

\* The stages of analyze_sector at which an awaited call can raise.
RaisingStages == {"collect", "synth"}

\* Variant: the except branch takes only what the collection raises.
MutExceptCatchesCollectOnly(stage) == stage = "collect"

\* analyze_sector, line 55: "except Exception" takes whatever a stage of the
\* try block raises.
ExceptCatches(stage) == stage \in RaisingStages

\* What the search and the backend do during the requests of the pipeline.
PipeQueries == {NoNews, SomeNews}
PipeBackends == {BackendRaises, BackendReturns("report")}

\* await self._collect_market_data(sector), the lookups failing or
\* delivering.
PipeCollect(i) ==
    /\ AtStep(i, "collect")
    /\ \E queries \in PipeQueries :
           Move(i, [tasks[i] EXCEPT
                        !.collected = TRUE,
                        !.market_data =
                            CollectMarketData(tasks[i].sector, queries),
                        !.pc = "synth"])
    /\ UNCHANGED <<now, ticks, nreq, gemini_model, session_store,
                   limiter_storage, session_cache, observations>>

\* await self.gemini_service.analyze_sector_data(sector, market_data), the
\* backend raising or returning.
PipeSynth(i) ==
    /\ AtStep(i, "synth")
    /\ \E backend \in PipeBackends :
           Move(i, [tasks[i] EXCEPT
                        !.report = AnalyzeSectorData(gemini_model, backend,
                                                     tasks[i].sector,
                                                     tasks[i].market_data),
                        !.pc = "store"])
    /\ UNCHANGED <<now, ticks, nreq, gemini_model, session_store,
                   limiter_storage, session_cache, observations>>

\* An awaited call of analyze_sector raises: the except branch returns the
\* error result, which is not stored; an exception the branch does not take
\* leaves analyze_sector and ends the request without a result.
RaiseStep(i) ==
    /\ \E stage \in RaisingStages :
           /\ AtStep(i, stage)
           /\ Move(i, IF ExceptCatches(stage)
                      THEN [tasks[i] EXCEPT
                                !.raised = stage,
                                !.result = ErrorResult(tasks[i].sector, "e1",
                                                       now),
                                !.pc = "respond"]
                      ELSE [tasks[i] EXCEPT !.raised = stage, !.code = 500,
                                            !.pc = "done"])
    /\ UNCHANGED <<now, ticks, nreq, gemini_model, session_store,
                   limiter_storage, session_cache, observations>>

PipeTaskStep(i) ==
    \/ ResolveIdentity(i) \/ SessionLookup(i) \/ SessionCreate(i)
    \/ SessionRead(i) \/ SessionWrite(i) \/ LimitStep(i) \/ CacheCheck(i)
    \/ PipeCollect(i) \/ PipeSynth(i) \/ RaiseStep(i)
    \/ StoreStep(i) \/ RespondStep(i)

\* A request arrives once the requests before it are answered.
PipeArrive == InFlight = {} /\ ArriveRequest

PipeNext == PipeArrive \/ \E i \in 1..MaxTasks : PipeTaskStep(i)

SpecPipeline == Start(BOOLEAN) /\ [][PipeNext]_vars

\* The event loop runs a task that is ready, and every awaited call returns
\* or raises.
PipeFair == WF_vars(\E i \in 1..MaxTasks : PipeTaskStep(i))

SpecPipelineLive == SpecPipeline /\ PipeFair

\* validate_sector_name alone, on strings up to a little past the longest
\* accepted one: every string of up to three characters, and runs of one
\* letter with one character replaced and a space before or after.
MaxValLen == 52
ShortLen == 3

ValAlphabet == {"a", "Z", "7", " ", "_", "-", "\t", "!"}

Rep(c, n) == [i \in 1..n |-> c]

ValInputs ==
    UNION { [1..n -> ValAlphabet] : n \in 0..ShortLen }
    \cup
    UNION { { l \o [Rep("a", n) EXCEPT ![p] = d] \o r :
                  p \in {1, n}, d \in ValAlphabet,
                  l \in {<<>>, <<" ">>}, r \in {<<>>, <<" ">>} } :
            n \in 1..MaxValLen }

Validate ==
    /\ ~vout.done
    /\ LET v == ValidateSectorName(vin) IN
       vout' = [done |-> TRUE, ok |-> v.ok,
                value |-> IF v.ok THEN v.value ELSE <<>>]
    /\ UNCHANGED <<now, ticks, nreq, gemini_model, session_store,
                   limiter_storage, session_cache, last, prior_result,
                   prior_session, ref_origin, ref_pair, prior_input, cleared,
                   loop, vin>>

SpecValidate == StartWith({FALSE}, ValInputs) /\ [][Validate]_vars

(***************************************************************************)
(* Claims                                                                  *)
(***************************************************************************)

\* The step handles one request.
RequestStep == nreq' = nreq + 1

\* The request handled last got as far as analyze_sector.
Analyzed == last.stage = "analyze"

\* The request handled last got past identity resolution, so its session was
\* resolved and the limiter was asked.
Resolved == last.stage \in {"limit", "validate", "analyze"}

\* C1 as stated: for any session key S and sector X, the second of two
\* successive analyze(X, S) calls with no invalidation in between returns
\* the result the first returned and runs no data collection.
C1_CacheIdempotence ==
    (Analyzed /\ last.has_prior) =>
        (last.result = last.prior /\ ~last.collected)

\* C1 amended: when the earlier analyze(X, S) returned status success, the
\* next analyze(X, S) with no invalidation in between is a cache hit: it
\* returns the identical AnalysisResult and runs no data collection.
C1_CacheIdempotenceAfterSuccess ==
    (Analyzed /\ last.has_prior /\ last.prior.status = "success") =>
        (last.result = last.prior /\ last.hit /\ ~last.collected)

\* A second analyze(X, S) made later than the successful first one, so that
\* a recomputation would carry another timestamp.
C1_Witness ==
    /\ Analyzed
    /\ last.has_prior
    /\ last.prior.status = "success"
    /\ last.t > last.prior.generated_at

\* C2 as stated: a status=error result is stored in the cache under (S, X)
\* before it is returned.
C2_ErrorsCached ==
    (Analyzed /\ last.result.status = "error") =>
        LET key == CacheKey(last.session, last.sector) IN
        /\ key \in DOMAIN session_cache
        /\ Core(session_cache[key]) = last.result

\* C2 amended: a status=error result is returned without being stored: the
\* faulting call leaves the cache as it was, and the next analyze(X, S)
\* runs data collection again instead of returning the error result.
C2_ErrorsNotCached ==
    [][RequestStep =>
        /\ (last'.stage = "analyze" /\ last'.result.status = "error")
               => session_cache' = session_cache
        /\ (last'.stage = "analyze" /\ last'.has_prior
                /\ last'.prior.status = "error")
               => (last'.collected /\ ~last'.hit)]_vars

\* A retry of analyze(X, S) after a call that faulted.
C2_Witness ==
    Analyzed /\ last.has_prior /\ last.prior.status = "error"

\* C3 as stated: with one fixed window per caller-origin pair, a request is
\* allowed exactly when fewer than N requests of its pair were counted in
\* the pair's current window, and is otherwise rejected with RateLimited.
C3_QuotaPerPair ==
    Resolved =>
        /\ last.allowed = last.ref_pair_allowed
        /\ last.allowed <=> last.code # 429

\* C3 amended: with one fixed window per origin address (all identities from
\* that address counted together), the first N requests inside a window are
\* allowed, request N+1 inside the same window is rejected with RateLimited,
\* and once the window has elapsed the count restarts.
C3_QuotaPerOrigin ==
    Resolved =>
        /\ last.allowed = last.ref_origin_allowed
        /\ last.allowed <=> last.code # 429

\* Request N+1 rejected inside a window that opened after an earlier window
\* of the same origin had elapsed.
C3_Witness ==
    /\ last.stage = "limit"
    /\ ref_origin[last.ip].start > StartTime

\* How many more requests the limiter would allow the pair (identity,
\* origin) at time t.
RECURSIVE QuotaLeft(_, _, _, _)
QuotaLeft(storage, pair, t, fuel) ==
    LET hit == LimiterHit(storage, LimiterKey(pair[1], pair[2]), t) IN
    IF fuel = 0 \/ ~hit.allowed THEN 0
    ELSE 1 + QuotaLeft(hit.storage, pair, t, fuel - 1)

Quota(storage, pair, t) == QuotaLeft(storage, pair, t, RATE_LIMIT_REQUESTS)

CallerPairs == {guest, alice} \X ClientIPs

\* C4 as stated: a request of one (identity, origin) pair leaves the quota of
\* every other pair as it was, also of another identity at the same origin.
C4_CountersPerPair ==
    [][(RequestStep /\ last'.stage # "auth") =>
        \A pair \in CallerPairs :
            pair # <<last'.user.username, last'.ip>> =>
                Quota(limiter_storage', pair, now)
                    = Quota(limiter_storage, pair, now)]_vars

\* C4 amended: counters are kept per origin address: a request leaves the
\* quota of every pair at another origin as it was (identities that share an
\* origin share one counter).
C4_CountersPerOrigin ==
    [][(RequestStep /\ last'.stage # "auth") =>
        \A pair \in CallerPairs :
            pair[2] # last'.ip =>
                Quota(limiter_storage', pair, now)
                    = Quota(limiter_storage, pair, now)]_vars

\* A request handled while another origin has used part of its quota.
C4_Witness ==
    /\ Resolved
    /\ \E pair \in CallerPairs :
           /\ pair[2] # last.ip
           /\ Quota(limiter_storage, pair, now) < RATE_LIMIT_REQUESTS
           /\ Quota(limiter_storage, pair, now) > 0

\* C5: two session resolutions of one identity and origin in the same hour
\* bucket return the same key and the record's request count grows by one;
\* a resolution in a later hour bucket returns another key whose record has
\* request count 1.
C5_SessionBucketing ==
    (Resolved /\ last.sess_prior.present) =>
        LET before == last.sess_prior IN
        /\ HourBucket(last.t) = HourBucket(before.t) =>
               /\ last.session = before.key
               /\ last.count_after = before.count + 1
        /\ HourBucket(last.t) > HourBucket(before.t) =>
               /\ last.session # before.key
               /\ last.count_after = 1
        /\ session_store[last.session].request_count = last.count_after

\* A resolution in a later hour bucket, after the earlier bucket's record had
\* counted more than one request.
C5_Witness ==
    /\ Resolved
    /\ last.sess_prior.present
    /\ HourBucket(last.t) > HourBucket(last.sess_prior.t)
    /\ last.sess_prior.count > 1

\* C6 as stated: a request with an invalid sector name is rejected with
\* InvalidInput and leaves the session table and the analysis cache as they
\* were.
C6_InvalidInputNoMutation ==
    [][(RequestStep /\ last'.stage = "validate") =>
        /\ last'.code = 400
        /\ session_store' = session_store
        /\ session_cache' = session_cache]_vars

\* The request count of a session key in a session table (0 when absent).
CountOf(store, key) ==
    IF key \in DOMAIN store THEN store[key].request_count ELSE 0

\* C6 amended: a request with an invalid sector name is rejected with
\* InvalidInput after its session was resolved: the analysis cache and every
\* other session record are as they were, and the caller's own record exists
\* with its request count raised by one and last_seen set to the time of the
\* request.
C6_InvalidInputCountsRequest ==
    [][(RequestStep /\ last'.stage = "validate") =>
        /\ last'.code = 400
        /\ session_cache' = session_cache
        /\ DOMAIN session_store' = DOMAIN session_store \cup {last'.session}
        /\ \A key \in DOMAIN session_store :
               key # last'.session => session_store'[key] = session_store[key]
        /\ session_store'[last'.session].request_count
               = CountOf(session_store, last'.session) + 1
        /\ session_store'[last'.session].last_seen = now]_vars

\* An invalid sector name rejected while the cache holds a result and the
\* caller's session had counted a request before.
C6_Witness ==
    /\ last.stage = "validate"
    /\ session_cache # EmptyMap
    /\ last.count_after > 1
    /\ Cardinality(DOMAIN session_store) > 1

\* The credential resolves: its token decodes to a subject the user table
\* knows and does not mark inactive.
CredentialResolves(credentials) ==
    /\ credentials.kind = "payload"
    /\ GetUser(credentials.sub).found
    /\ ~GetUser(credentials.sub).disabled

\* The credential's subject is a user marked inactive.
CredentialInactive(credentials) ==
    /\ credentials.kind = "payload"
    /\ GetUser(credentials.sub).found
    /\ GetUser(credentials.sub).disabled

\* C7: a request whose credential fails resolution is rejected, is not
\* given the guest identity, and leaves the session table and the analysis
\* cache as they were.
C7_FailedCredentialRejected ==
    [][(RequestStep /\ last'.cred # NoCred /\ ~CredentialResolves(last'.cred)) =>
        /\ last'.stage = "auth"
        /\ last'.code \in {400, 401}
        /\ last'.user = NoUser
        /\ last'.session = <<>>
        /\ session_store' = session_store
        /\ session_cache' = session_cache]_vars

\* A failing credential rejected while the session table and the cache hold
\* entries.
C7_Witness ==
    /\ last.stage = "auth"
    /\ last.cred # NoCred
    /\ ~CredentialResolves(last.cred)
    /\ session_store # EmptyMap
    /\ session_cache # EmptyMap

\* C8 as stated: every failure of identity resolution with a credential
\* present is Unauthenticated (401).
C8_AlwaysUnauthenticated ==
    (last.stage = "auth" /\ last.cred # NoCred) => last.code = 401

\* C8 amended: identity resolution with a credential present fails with
\* Unauthenticated (401) when the subject is missing or unknown and on a
\* decode error; a subject marked inactive is rejected with 400 instead.
C8_UnauthenticatedUnlessInactive ==
    (last.stage # "none" /\ last.cred # NoCred) =>
        /\ ~CredentialResolves(last.cred) <=> last.stage = "auth"
        /\ last.stage = "auth" =>
               /\ CredentialInactive(last.cred) => last.code = 400
               /\ ~CredentialInactive(last.cred) => last.code = 401

\* The credential of an inactive user rejected.
C8_Witness ==
    /\ last.stage = "auth"
    /\ CredentialInactive(last.cred)

\* C9: a request with no credential never fails with Unauthenticated: it is
\* resolved to the identity "guest" with is_guest true and its session is
\* resolved under that identity.
C9_GuestPath ==
    (last.stage # "none" /\ last.cred = NoCred) =>
        /\ last.code # 401
        /\ last.stage # "auth"
        /\ last.user = [username |-> guest, is_guest |-> TRUE]
        /\ last.session = SessionKey(guest, last.ip, last.t)
        /\ last.count_after >= 1

\* A request with no credential that went through to the analysis.
C9_Witness ==
    /\ last.cred = NoCred
    /\ Analyzed
    /\ session_store[last.session].is_guest

\* The strings C10 calls valid: 2 to 50 characters, each a letter, a digit,
\* a space, an underscore or a hyphen.
ClaimValidSector(s) ==
    /\ Len(s) >= 2
    /\ Len(s) <= 50
    /\ \A i \in 1..Len(s) :
           s[i] \in LowerLetters \cup {"z"} \cup UpperLetters \cup DigitChars
                        \cup {" ", "_", "-"}

\* C10 as stated: validate_sector_name accepts exactly the valid strings: it
\* raises for no valid string and raises for every other string.
C10_AcceptsExactlyValid ==
    vout.done => (vout.ok <=> ClaimValidSector(vin))

\* Two sector inputs differ only in letter case and in leading and trailing
\* whitespace.
SameSpelling(a, b) == Lower(Strip(a)) = Lower(Strip(b))

SomeLookupFailed == \E i \in 1..Len(vin.queries) : vin.queries[i].raised

\* C12 as stated: whenever a lookup fails the request still returns a
\* result, the collected data passed forward is empty, and the collected
\* data carries the error marker.
C12_FailureRecorded ==
    (vout.done /\ SomeLookupFailed) =>
        /\ vout.value.result.status = "success"
        /\ vout.value.data.news = <<>>
        /\ vout.value.data.has_error

\* C12, what the code does instead: a failing lookup is skipped and nothing
\* records it: the
\* request still returns a status=success result built by the synthesizer,
\* the news passed forward are the items of the lookups that did not fail
\* (none when all of them failed), the search is still listed as a data
\* source, and the collected data carries no error marker.
C12_FailureSkipped ==
    (vout.done /\ SomeLookupFailed) =>
        LET data == vout.value.data IN
        /\ vout.value.result.status = "success"
        /\ vout.value.result.analysis.kind = "fallback"
        /\ ~data.has_error
        /\ data.sources = <<"DuckDuckGo Search">>
        /\ vout.value.result.data_sources = data.sources
        /\ {data.news[i].title : i \in 1..Len(data.news)}
               = UNION { { vin.queries[i].results[k].title :
                               k \in 1..Len(vin.queries[i].results) } :
                           i \in { j \in 1..Len(vin.queries) :
                                       ~vin.queries[j].raised } }

\* A collection in which one lookup failed and another returned news.
C12_Witness ==
    /\ vout.done
    /\ SomeLookupFailed
    /\ vout.value.data.news # <<>>
    /\ vin.queries[2].raised

\* The position of the first item with the title among the gathered items.
FirstWithTitle(items, title) ==
    CHOOSE k \in 1..Len(items) :
        /\ items[k].title = title
        /\ \A j \in 1..(k - 1) : items[j].title # title

\* C16: the merged news list has no two items with the same title, keeps
\* for each title the first item the lookups returned under it, in lookup
\* order, and has at most 10 items.
C16_NewsMerging ==
    vout.done =>
        LET gathered == vout.value.gathered
            news == vout.value.data.news
        IN
        /\ \A i, j \in 1..Len(news) :
               i # j => news[i].title # news[j].title
        /\ Len(news) <= 10
        /\ \A i \in 1..Len(news) :
               /\ \E k \in 1..Len(gathered) : gathered[k].title = news[i].title
               /\ news[i] = gathered[FirstWithTitle(gathered, news[i].title)]
        /\ \A i, j \in 1..Len(news) :
               i < j => FirstWithTitle(gathered, news[i].title)
                            < FirstWithTitle(gathered, news[j].title)
        /\ Cardinality({gathered[k].title : k \in 1..Len(gathered)}) <= 10
               => \A k \in 1..Len(gathered) :
                      \E i \in 1..Len(news) : news[i].title = gathered[k].title

\* Lookups that returned the most they can, two different items under one
\* title among them.
C16_Witness ==
    /\ vout.done
    /\ Len(vout.value.gathered) = 3 * MaxResults
    /\ Len(vout.value.data.news) >= 2
    /\ \E i, j \in 1..Len(vout.value.gathered) :
           /\ i < j
           /\ vout.value.gathered[i].title = vout.value.gathered[j].title
           /\ vout.value.gathered[i] # vout.value.gathered[j]

\* C13 as stated: a result whose text came from the backend and a result
\* whose text came from the fallback template differ in status.
C13_StatusTellsPath ==
    (vout.done /\ vout.value.has_prev
        /\ vout.value.prev.report.kind # vout.value.cur.report.kind) =>
        vout.value.prev.result.status # vout.value.cur.result.status

\* C13 amended: the result built from a synthesized report has status
\* "success" on both paths, so status does not tell a backend report from a
\* fallback report; only the report in the analysis field differs.
C13_StatusSameOnBothPaths ==
    vout.done =>
        /\ vout.value.cur.result.status = "success"
        /\ ~vout.value.cur.result.has_error
        /\ vout.value.cur.result.analysis = vout.value.cur.report
        /\ vout.value.has_prev =>
               vout.value.prev.result.status = vout.value.cur.result.status

\* A backend report followed by a fallback report.
C13_Witness ==
    /\ vout.done
    /\ vout.value.has_prev
    /\ vout.value.prev.report.kind = "backend"
    /\ vout.value.cur.report.kind = "fallback"

\* C14: synthesis returns the fallback report, and the orchestrator builds a
\* success result from it, when the backend is unconfigured, when the call
\* raises and when the completion is empty; the backend is not called when
\* it is unconfigured.
C14_FallbackRouting ==
    vout.done =>
        LET call == vout.value.cur IN
        /\ (~gemini_model \/ call.backend.raised \/ call.backend.text = "") =>
               /\ call.report.kind = "fallback"
               /\ call.report.sector = call.sector
               /\ call.result.status = "success"
               /\ call.result.analysis = call.report
        /\ ~gemini_model => ~call.called
        /\ gemini_model => call.called

\* A configured backend that returned an empty completion.
C14_Witness ==
    /\ vout.done
    /\ gemini_model
    /\ ~vout.value.cur.backend.raised
    /\ vout.value.cur.backend.text = ""
    /\ vout.value.cur.called

\* C15: with no backend configured, two invocations with the same sector
\* and the same news list return the same report, whatever else the market
\* data holds and whenever they run.
C15_FallbackDeterminism ==
    (vout.done /\ vout.value.has_prev /\ ~gemini_model
        /\ vout.value.prev.sector = vout.value.cur.sector
        /\ vout.value.prev.market_data.news = vout.value.cur.market_data.news)
        => /\ vout.value.prev.report = vout.value.cur.report
           /\ vout.value.cur.report.kind = "fallback"

\* Two invocations on the same sector and news at different times, one of
\* them on market data marked as failed.
C15_Witness ==
    /\ vout.done
    /\ vout.value.has_prev
    /\ ~gemini_model
    /\ vout.value.prev.sector = vout.value.cur.sector
    /\ vout.value.prev.market_data.news = vout.value.cur.market_data.news
    /\ vout.value.cur.market_data.news # <<>>
    /\ vout.value.prev.market_data # vout.value.cur.market_data
    /\ vout.value.prev.t # vout.value.cur.t

\* The step is a clear_user_cache call that removed something.
InvalidateStep == nreq' = nreq /\ session_cache' # session_cache

\* The sector names the requests of the cache specification ask for.
CachedSectors == {<<"a", "i">>, <<"i", "t">>}

\* C17: after clear_user_cache(S) the cache holds no entry for (S, X), for
\* every sector X, and the next analyze(X, S) misses and recomputes.
C17_InvalidateRemoves ==
    [][/\ InvalidateStep =>
              /\ cleared'.present
              /\ cleared'.removed # {}
              /\ \A sector \in CachedSectors :
                     CacheKey(cleared'.session, sector)
                         \notin DOMAIN session_cache'
       /\ (RequestStep /\ last'.stage = "analyze" /\ cleared.present
               /\ last'.session = cleared.session) =>
              /\ ~last'.hit
              /\ last'.collected
              /\ ~last'.has_prior]_vars

\* An analysis recomputed for a sector whose entry the invalidation of its
\* session had removed together with another one.
C17_Witness ==
    /\ Analyzed
    /\ last.cleared.present
    /\ last.cleared.session = last.session
    /\ CacheKey(last.session, last.sector) \in last.cleared.removed
    /\ Cardinality(last.cleared.removed) > 1
    /\ ~last.hit
    /\ last.result.status = "success"

\* The step is a get_session_stats call.
StatsStep == nreq' = nreq /\ ticks' = ticks /\ vout'.done

DayInSeconds == 24 * 3600

\* C18: after stats() the session table holds no record older than 24 hours,
\* every record that was at most 24 hours old is still there unchanged, and
\* the reported totals satisfy total = guest + authenticated = number of
\* records in the table.
C18_StatsOnLiveSessions ==
    [][StatsStep =>
        /\ \A k \in DOMAIN session_store' :
               now - session_store'[k].created_at <= DayInSeconds
        /\ DOMAIN session_store' \subseteq DOMAIN session_store
        /\ \A k \in DOMAIN session_store :
               now - session_store[k].created_at <= DayInSeconds =>
                   /\ k \in DOMAIN session_store'
                   /\ session_store'[k] = session_store[k]
        /\ vout'.value.total_sessions = Cardinality(DOMAIN session_store')
        /\ vout'.value.total_sessions
               = vout'.value.guest_sessions
                     + vout'.value.authenticated_sessions
        /\ vout'.value.guest_sessions
               = Cardinality({k \in DOMAIN session_store' :
                                 session_store'[k].is_guest})
        /\ vout'.value.authenticated_sessions
               = Cardinality({k \in DOMAIN session_store' :
                                 ~session_store'[k].is_guest})]_vars

\* Statistics that expired a record, kept a guest record that was exactly 24
\* hours old and counted a user's record as well.
C18_Witness ==
    /\ vout.done
    /\ vout.value.t = now
    /\ vout.value.expired # {}
    /\ vout.value.guest_sessions > 0
    /\ vout.value.authenticated_sessions > 0
    /\ \E k \in DOMAIN session_store :
           /\ session_store[k].is_guest
           /\ now - session_store[k].created_at = DayInSeconds

\* Tasks i and j were in flight at the same time.
Together(i, j) == i \in tasks[j].arrived_with \/ j \in tasks[i].arrived_with

\* Task i is a request that was answered with an analysis.
Answered(i) ==
    tasks[i].kind = "analyze" /\ tasks[i].pc = "done" /\ tasks[i].code = 200

\* The cache held no entry for the request of task i when it arrived.
FirstTime(i) ==
    CacheKey(tasks[i].session, tasks[i].sector) \notin tasks[i].cache_on_arrival

\* Two answered first-time requests for the same (session, sector) that were
\* in flight together.
ConcurrentPair(i, j) ==
    /\ i # j
    /\ Answered(i) /\ Answered(j)
    /\ Together(i, j)
    /\ tasks[i].session = tasks[j].session
    /\ tasks[i].sector = tasks[j].sector
    /\ FirstTime(i) /\ FirstTime(j)

CountAtStart(key) ==
    IF key \in DOMAIN OldSessions THEN OldSessions[key].request_count ELSE 0

\* C20: whatever the interleaving of concurrent session resolutions and
\* clean-ups, no increment is lost (a record in the table counts every
\* resolution of its key), at most one record is created per key, and no
\* call finds the record missing between the create-if-absent step and the
\* increment.
C20_SessionUpdatesSerialized ==
    /\ \A key \in DOMAIN session_store :
           session_store[key].request_count
               = CountAtStart(key)
                   + Cardinality({i \in 1..Len(tasks) :
                                     /\ tasks[i].counted
                                     /\ tasks[i].session = key})
    /\ \A i, j \in 1..Len(tasks) :
           (tasks[i].created /\ tasks[j].created
               /\ tasks[i].session = tasks[j].session) => i = j
    /\ \A i \in 1..Len(tasks) :
           /\ ~tasks[i].key_error
           /\ tasks[i].code # 500
           /\ tasks[i].counted => tasks[i].session \in DOMAIN session_store

\* Two session resolutions of one key and a clean-up that were in flight
\* together: the clean-up expired the old record and the key's record counts
\* both resolutions.
C20_Witness ==
    \E i, j, c \in 1..Len(tasks) :
        /\ i # j
        /\ tasks[c].kind = "cleanup"
        /\ tasks[c].pc = "done"
        /\ tasks[c].expired # {}
        /\ Together(i, j) /\ Together(i, c) /\ Together(j, c)
        /\ tasks[i].counted /\ tasks[j].counted
        /\ tasks[i].pc = "done" /\ tasks[j].pc = "done"
        /\ tasks[i].session = tasks[j].session
        /\ session_store[tasks[i].session].request_count = 2

\* C21: a result is immutable once stored in the analysis cache: no step of
\* any request, the endpoint's attaching of the user context included,
\* changes an entry the cache holds, so the entry stays the value that was
\* put.
C21_StoredEntryImmutable ==
    [][\A key \in DOMAIN session_cache :
           key \in DOMAIN session_cache'
               => session_cache'[key] = session_cache[key]]_vars

\* C21, what the code does instead: the endpoint writes the user context
\* into the dict the cache holds, so the entry of an answered request
\* carries the caller's name and session prefix, which the value put did not.
C21_EntryCarriesContext ==
    \A i \in 1..Len(tasks) :
        (Answered(i) /\ (tasks[i].wrote \/ tasks[i].hit)) =>
            LET cache_key == CacheKey(tasks[i].session, tasks[i].sector) IN
            /\ cache_key \in DOMAIN session_cache
            /\ session_cache[cache_key]
                   = [tasks[i].result EXCEPT
                          !.user_context =
                              UserContext(tasks[i].user, tasks[i].session)]
            /\ session_cache[cache_key] # tasks[i].result

\* The stages of a request in the order the service runs them: the cache
\* check, collecting, synthesizing, then the result is built and stored,
\* handed to the endpoint and sent.
StageRank(pc) ==
    CASE pc = "cache_check" -> 1
      [] pc = "collect" -> 2
      [] pc = "synth" -> 3
      [] pc = "store" -> 4
      [] pc = "respond" -> 5
      [] pc = "done" -> 6
      [] OTHER -> 0

\* Task i passed authentication, the rate limit and validation and is
\* inside analyze_sector.
InAnalyze(i) ==
    /\ i \in 1..Len(tasks)
    /\ tasks[i].checked
    /\ tasks[i].pc \in {"collect", "synth", "store", "respond"}

\* Task i is done with an AnalysisResult.
DoneWithResult(i) ==
    /\ i \in 1..Len(tasks)
    /\ tasks[i].pc = "done"
    /\ tasks[i].code = 200
    /\ tasks[i].result.status \in {"success", "error"}
    /\ tasks[i].result.sector = tasks[i].sector

\* C22: every request that passed authentication, the rate limit and
\* validation eventually is done with an AnalysisResult, as long as every
\* awaited call returns or raises; no failure of collection or synthesis
\* leaves analyze_sector as an exception; and a request moves through cache
\* check, collecting, synthesizing and done in this order only.
C22_ReachesDone ==
    /\ [](\A i \in 1..Len(tasks) :
              /\ tasks[i].code # 500
              /\ (tasks[i].checked /\ tasks[i].pc = "done")
                     => DoneWithResult(i))
    /\ [][\A i \in 1..Len(tasks) :
              LET from == StageRank(tasks[i].pc)
                  to == StageRank(tasks'[i].pc)
              IN (from # 0 /\ tasks'[i].pc # tasks[i].pc) =>
                     /\ to > from
                     /\ to = 2 => from = 1
                     /\ to = 3 => from = 2
                     /\ to = 4 => from = 3]_vars
    /\ \A i \in 1..MaxTasks : InAnalyze(i) ~> DoneWithResult(i)

\* A request whose synthesis raised is done with an error result, and a
\* later one whose lookups all failed and whose backend raised is done with
\* a success result from the fallback.
C22_Witness ==
    \E i, j \in 1..Len(tasks) :
        /\ DoneWithResult(i) /\ DoneWithResult(j)
        /\ tasks[i].raised = "synth"
        /\ tasks[i].result.status = "error"
        /\ gemini_model
        /\ tasks[j].collected
        /\ tasks[j].market_data.news = <<>>
        /\ tasks[j].result.status = "success"
        /\ tasks[j].result.analysis.kind = "fallback"

\* The request handled last was answered with the result of the except
\* branch.
AnsweredWithError ==
    last.stage = "analyze" /\ last.code = 200 /\ last.result.status = "error"

\* C23: an internal fault leaks no detail: the result returned for a request
\* whose analysis raised is the same whatever the text of the exception,
\* and it never holds that text.
C23_NoFaultDetail ==
    AnsweredWithError =>
        /\ last.result.error \notin FaultTexts
        /\ \A fault \in FaultTexts :
               last.result = ErrorResult(last.sector, fault, last.t)

\* C23, what the code does instead: the "error" field of the result is the
\* text of the exception; every other field is the same whatever the text.
C23_ErrorFieldIsText ==
    AnsweredWithError =>
        /\ last.result.error \in FaultTexts
        /\ last.result = ErrorResult(last.sector, last.result.error, last.t)
        /\ \A fault \in FaultTexts :
               [last.result EXCEPT !.error = ""]
                   = [ErrorResult(last.sector, fault, last.t)
                          EXCEPT !.error = ""]

\* The cache entry under the key was stored for the session: its key is the
\* session's key, the separator and the entry's sector.
EntryOf(cache, key, user_session) ==
    key = CacheKey(user_session, cache[key].sector)

\* C24: clear_user_cache(S) leaves every cache entry of a session other than
\* S as it was, also when S is a proper prefix of that session's key.
C24_InvalidationConfined ==
    [][InvalidateStep =>
           \A key \in DOMAIN session_cache :
               ~EntryOf(session_cache, key, cleared'.session) =>
                   /\ key \in DOMAIN session_cache'
                   /\ session_cache'[key] = session_cache[key]]_vars

\* C24, what the code does instead: clear_user_cache(S) removes exactly the
\* entries whose key starts with S, those of other sessions included.
C24_RemovesByPrefix ==
    [][InvalidateStep =>
           /\ cleared'.removed
                  = {key \in DOMAIN session_cache :
                         StartsWith(key, cleared'.session)}
           /\ \A key \in DOMAIN session_cache \ cleared'.removed :
                  /\ key \in DOMAIN session_cache'
                  /\ session_cache'[key] = session_cache[key]]_vars

\* An invalidation removed the entry of a session other than the one named.
C24_Witness ==
    /\ cleared.present
    /\ \E key \in cleared.removed :
           /\ StartsWith(key, cleared.session)
           /\ \E other \in DOMAIN session_store :
                  /\ other # cleared.session
                  /\ StartsWith(other, cleared.session)
                  /\ key = CacheKey(other, <<"i", "t">>)

\* C25: cache entries are isolated per (session key, sector): two distinct
\* pairs never have the same cache key, every entry is the result computed
\* for its own pair, and a cache hit for analyze(X, S) returns the result
\* computed for sector X in session S, also when the user's name and the
\* sector hold the underscore that separates the parts of the key.
C25_CacheIsolation ==
    /\ \A p, q \in DOMAIN prior_result :
           CacheKey(p[1], p[2]) = CacheKey(q[1], q[2]) => p = q
    /\ \A p \in DOMAIN prior_result :
           prior_result[p].status = "success" =>
               /\ CacheKey(p[1], p[2]) \in DOMAIN session_cache
               /\ Core(session_cache[CacheKey(p[1], p[2])]) = prior_result[p]
               /\ prior_result[p].sector = p[2]
    /\ Cardinality(DOMAIN session_cache) = Cardinality(DOMAIN prior_result)
    /\ (Analyzed /\ last.hit) =>
           /\ last.result.sector = last.sector
           /\ last.has_prior
           /\ last.result = last.prior

\* A cache hit of the user whose name holds the separator, for a sector that
\* holds it, while the cache also holds the entry of the guest's session of
\* an earlier hour for the same sector.
C25_Witness ==
    /\ Analyzed /\ last.hit
    /\ last.user.username = under
    /\ last.sector = <<"0", "_", "i", "t">>
    /\ \E p \in DOMAIN prior_result :
           /\ p[1] = SessionKey(guest, ip1, StartTime)
           /\ p[1] # last.session
           /\ p[2] = last.sector
           /\ CacheKey(p[1], p[2]) \in DOMAIN session_cache

====
